---------------------------- MODULE Spec2Model ----------------------------
(***************************************************************************)
(* A model of the EVTX parser's output side and of its per-chunk template  *)
(* cache:                                                                  *)
(*   - XmlOutput        (src/src/xml_output.rs)                            *)
(*   - StructureBuilder (src/src/evtx_structure.rs)                        *)
(*   - TemplateCache    (src/src/template_cache.rs)                        *)
(* together with the parts of the parser that drive them (the visitor      *)
(* driver, the template expander, the record iterator), which are          *)
(* described by spec.md sections 4.1, 4.3, 4.6, 5 and 7.                   *)
(***************************************************************************)
EXTENDS Integers, Sequences, FiniteSets, TLC

(***************************************************************************)
(* Bounds of the model.                                                    *)
(***************************************************************************)
MaxAttrs == 2
MaxSbAttrs == 1
MaxXmlCalls == 2
MaxSbCalls == 4
MaxTreeEvents == 6
MaxTokens == 4
MaxOffset == 2
TableLen == 3
MaxInstances == 2
MaxChunks == 2
MaxFileRecords == 3
MaxThreads == 2

(***************************************************************************)
(* Values, attributes and elements handed to the visitor callbacks.        *)
(***************************************************************************)
NullValue == [type |-> "NullType"]

StringValue(s) == [type |-> "StringType", s |-> s]

\* The values the model draws from: Null, the empty string, a non-empty string.
BinXmlValues == {NullValue, StringValue(""), StringValue("v")}

\* Values of attributes: Null (an OptionalSubstitution that resolved to
\* Null) or a present string.
AttrValues == {NullValue, StringValue("v")}

\* BinXmlValue::as_cow_str: Null renders to the empty text, a string to itself.
as_cow_str(value) ==
  IF value.type = "NullType" THEN "" ELSE value.s

ElementNames == {"a", "b"}

AttrNames == {"x", "y"}

XmlAttributes == [name : AttrNames, value : AttrValues]

SeqsUpTo(S, n) == UNION {[1..k -> S] : k \in 0..n}

XmlElements == [name : ElementNames, attributes : SeqsUpTo(XmlAttributes, MaxAttrs)]

\* The elements the structure builder and the record driver are given.
SbElements == [name : ElementNames, attributes : SeqsUpTo(XmlAttributes, MaxSbAttrs)]

\* The elements the structure builder is given when it is driven call by
\* call: without attributes, or with a Null attribute before one with a value.
BuilderElements ==
  [name : ElementNames,
   attributes : {<<>>,
                 <<[name |-> "x", value |-> NullValue],
                   [name |-> "y", value |-> StringValue("v")]>>}]

\* Elements without attributes, as passed to visit_close_element.
BareElements == [name : ElementNames, attributes : {<<>>}]

(***************************************************************************)
(* XmlOutput: the adapter between the visitor callbacks and the events of  *)
(* the XML writer.  The writer is the sequence of events written so far.   *)
(***************************************************************************)
SerOk == [kind |-> "Ok"]

Unimplemented(message) ==
  [kind |-> "Err", err |-> "Unimplemented", message |-> message]

XmlResult(writer, ret) == [writer |-> writer, ret |-> ret]

XmlOutput_with_writer == <<>>

XmlOutput_visit_end_of_stream(writer) ==
  XmlResult(Append(writer, [type |-> "Eof"]), SerOk)

\* The loop over element.attributes: an attribute is pushed only when its
\* value renders to a non-empty string.
push_attributes_always(attributes, event_builder) ==
  event_builder \o
    [i \in 1..Len(attributes) |->
       [key |-> attributes[i].name, value |-> as_cow_str(attributes[i].value)]]

RECURSIVE push_attributes(_, _)
push_attributes(attributes, event_builder) ==
  IF attributes = <<>> THEN event_builder
  ELSE LET attr == Head(attributes)
           value_cow == as_cow_str(attr.value)
       IN push_attributes(
            Tail(attributes),
            IF Len(value_cow) > 0
              THEN Append(event_builder, [key |-> attr.name, value |-> value_cow])
              ELSE event_builder)

XmlOutput_visit_open_start_element(writer, element) ==
  LET event_builder == push_attributes(element.attributes, <<>>)
  IN XmlResult(
       Append(writer, [type |-> "Start", name |-> element.name,
                       attributes |-> event_builder]),
       SerOk)

XmlOutput_visit_close_element(writer, element) ==
  XmlResult(Append(writer, [type |-> "End", name |-> element.name]), SerOk)

XmlOutput_visit_characters(writer, value) ==
  XmlResult(Append(writer, [type |-> "Text", text |-> as_cow_str(value)]), SerOk)

\* visit_cdata_section that writes a CDATA event and returns Ok.
visit_cdata_section_writing(writer) ==
  XmlResult(Append(writer, [type |-> "CData"]), SerOk)

XmlOutput_visit_cdata_section(writer) ==
  XmlResult(writer, Unimplemented("visit_cdata_section"))

XmlOutput_visit_entity_reference(writer) ==
  XmlResult(writer, Unimplemented("visit_entity_reference"))

XmlOutput_visit_processing_instruction_target(writer) ==
  XmlResult(writer, Unimplemented("visit_processing_instruction_target"))

XmlOutput_visit_processing_instruction_data(writer) ==
  XmlResult(writer, Unimplemented("visit_processing_instruction_data"))

XmlOutput_visit_start_of_stream(writer) ==
  XmlResult(Append(writer, [type |-> "Decl", version |-> "1.0",
                            encoding |-> "utf-8"]), SerOk)

(***************************************************************************)
(* EvtxXmlElement, EvtxStructure and StructureBuilder.  A call that panics *)
(* is reported as such; the builder is then not used any more.             *)
(***************************************************************************)
ContentNone == [type |-> "None"]

ContentSimple(s) == [type |-> "Simple", text |-> s]

ContentComplex(v) == [type |-> "Complex", children |-> v]

\* HashMap::new
HashMapNew == [k \in {} |-> ""]

EvtxXmlElement_new(name) ==
  [name |-> name, attributes |-> HashMapNew, content |-> ContentNone]

\* HashMap::insert on the map from attribute names to rendered values.
HashMapInsert(map, key, value) ==
  [k \in DOMAIN map \cup {key} |-> IF k = key THEN value ELSE map[k]]

add_attribute(element, name, value) ==
  [element EXCEPT !.attributes = HashMapInsert(element.attributes, name, value)]

\* add_simple_content that leaves the element alone when the text is empty.
add_simple_content_unless_empty(element, value) ==
  IF value = "" THEN [panic |-> FALSE, element |-> element]
  ELSE IF element.content.type = "None"
    THEN [panic |-> FALSE,
          element |-> [element EXCEPT !.content = ContentSimple(value)]]
  ELSE IF element.content.type = "Simple"
    THEN [panic |-> FALSE,
          element |-> [element EXCEPT !.content =
                         ContentSimple(element.content.text \o value)]]
  ELSE [panic |-> TRUE, element |-> element]

add_simple_content(element, value) ==
  CASE element.content.type = "None" ->
         [panic |-> FALSE,
          element |-> [element EXCEPT !.content = ContentSimple(value)]]
    [] element.content.type = "Simple" ->
         [panic |-> FALSE,
          element |-> [element EXCEPT !.content =
                         ContentSimple(element.content.text \o value)]]
    [] OTHER ->
         [panic |-> value # "", element |-> element]

\* add_child that puts the child before the children already there.
add_child_in_front(element, child) ==
  IF element.content.type = "Simple" THEN [panic |-> TRUE, element |-> element]
  ELSE IF element.content.type = "None"
    THEN [panic |-> FALSE,
          element |-> [element EXCEPT !.content = ContentComplex(<<child>>)]]
  ELSE [panic |-> FALSE,
        element |-> [element EXCEPT !.content =
                       ContentComplex(<<child>> \o element.content.children)]]

add_child(element, child) ==
  CASE element.content.type = "Simple" ->
         [panic |-> TRUE, element |-> element]
    [] element.content.type = "None" ->
         [panic |-> FALSE,
          element |-> [element EXCEPT !.content = ContentComplex(<<child>>)]]
    [] OTHER ->
         [panic |-> FALSE,
          element |-> [element EXCEPT !.content =
                         ContentComplex(Append(element.content.children, child))]]

EpochTimestamp == 0

EvtxStructure_new(event_record_id, timestamp) ==
  [event_record_id |-> event_record_id, timestamp |-> timestamp,
   content |-> EvtxXmlElement_new("")]

EvtxStructure_new_empty ==
  [event_record_id |-> 0, timestamp |-> EpochTimestamp,
   content |-> EvtxXmlElement_new("")]

StructureBuilder_new(event_record_id, timestamp) ==
  [result |-> EvtxStructure_new(event_record_id, timestamp), node_stack |-> <<>>]

\* What a StructureBuilder call gives: the builder after it, and what it
\* returned (Ok or an error value) or that it panicked.
SbResult(builder, ret) == [builder |-> builder, ret |-> ret]

SbPanic == [kind |-> "Panic"]

StructureBuilderError(message) ==
  [kind |-> "Err", err |-> "StructureBuilderError", message |-> message]

\* get_structure that leaves the result in the builder.
get_structure_keeping_result(builder) ==
  [builder |-> builder, structure |-> builder.result]

get_structure(builder) ==
  [builder |-> [builder EXCEPT !.result = EvtxStructure_new_empty],
   structure |-> builder.result]

RECURSIVE add_attributes(_, _)
add_attributes(element, attributes) ==
  IF attributes = <<>> THEN element
  ELSE LET a == Head(attributes)
       IN add_attributes(add_attribute(element, a.name, as_cow_str(a.value)),
                         Tail(attributes))

enter_named_node(builder, name, attributes) ==
  LET element == add_attributes(EvtxXmlElement_new(name), attributes)
  IN [builder EXCEPT !.node_stack = Append(builder.node_stack, element)]

Last(s) == s[Len(s)]

Front(s) == SubSeq(s, 1, Len(s) - 1)

\* leave_node_popped that keeps the first top-level element in the result.
leave_node_keeping_first(builder, my_node, rest) ==
  IF rest = <<>>
    THEN SbResult([result |-> IF builder.result.content.name = ""
                                THEN [builder.result EXCEPT !.content = my_node]
                                ELSE builder.result,
                   node_stack |-> rest], SerOk)
    ELSE LET r == add_child(Last(rest), my_node)
         IN IF r.panic
              THEN SbResult([builder EXCEPT !.node_stack = rest], SbPanic)
              ELSE SbResult([builder EXCEPT !.node_stack =
                               Append(Front(rest), r.element)], SerOk)

\* What leave_node does with the popped node.
leave_node_popped(builder, my_node, rest) ==
  IF rest = <<>>
    THEN SbResult([result |-> [builder.result EXCEPT !.content = my_node],
                   node_stack |-> rest], SerOk)
    ELSE LET r == add_child(Last(rest), my_node)
         IN IF r.panic
              THEN SbResult([builder EXCEPT !.node_stack = rest], SbPanic)
              ELSE SbResult([builder EXCEPT !.node_stack =
                               Append(Front(rest), r.element)], SerOk)

\* leave_node that closes the open element only if it has the given name.
leave_node_by_name(builder, name) ==
  IF builder.node_stack = <<>> THEN SbResult(builder, SbPanic)
  ELSE IF Last(builder.node_stack).name # name THEN SbResult(builder, SerOk)
  ELSE leave_node_popped(builder, Last(builder.node_stack),
                         Front(builder.node_stack))

leave_node(builder, name) ==
  IF builder.node_stack = <<>> THEN SbResult(builder, SbPanic)
  ELSE leave_node_popped(builder, Last(builder.node_stack),
                         Front(builder.node_stack))

\* visit_end_of_stream that accepts open elements.
visit_end_of_stream_lenient(builder) == SbResult(builder, SerOk)

StructureBuilder_visit_end_of_stream(builder) ==
  IF builder.node_stack # <<>>
    THEN SbResult(builder, StructureBuilderError("node stack is not empty"))
    ELSE SbResult(builder, SerOk)

StructureBuilder_visit_open_start_element(builder, element) ==
  SbResult(enter_named_node(builder, element.name, element.attributes), SerOk)

StructureBuilder_visit_close_element(builder, element) ==
  leave_node(builder, element.name)

StructureBuilder_visit_characters(builder, value) ==
  IF builder.node_stack = <<>> THEN SbResult(builder, SbPanic)
  ELSE LET r == add_simple_content(Last(builder.node_stack), as_cow_str(value))
       IN IF r.panic
            THEN SbResult(builder, SbPanic)
            ELSE SbResult([builder EXCEPT !.node_stack =
                             Append(Front(builder.node_stack), r.element)], SerOk)

StructureBuilder_visit_cdata_section(builder) == SbResult(builder, SerOk)

\* visit_entity_reference that emits "&" into the open element.
visit_entity_reference_emitting(builder) ==
  IF builder.node_stack = <<>> THEN SbResult(builder, SerOk)
  ELSE LET r == add_simple_content(Last(builder.node_stack), "&")
       IN IF r.panic THEN SbResult(builder, SbPanic)
          ELSE SbResult([builder EXCEPT !.node_stack =
                           Append(Front(builder.node_stack), r.element)], SerOk)

StructureBuilder_visit_entity_reference(builder) == SbResult(builder, SerOk)

StructureBuilder_visit_character_reference(builder) == SbResult(builder, SerOk)

StructureBuilder_visit_processing_instruction(builder) == SbResult(builder, SerOk)

StructureBuilder_visit_start_of_stream(builder) ==
  IF Len(builder.node_stack) # 0 THEN SbResult(builder, SbPanic)
  ELSE SbResult(builder, SerOk)

(***************************************************************************)
(* The visitor driver (spec.md 4.6): start_of_stream, one callback per     *)
(* token of the record in document order, end_of_stream; the first         *)
(* callback that does not return Ok ends the record with that outcome.     *)
(***************************************************************************)
OpenElementToken(element) == [kind |-> "OpenElement", element |-> element]

CloseElementToken == [kind |-> "CloseElement"]

ValueToken(value) == [kind |-> "Value", value |-> value]

CDataToken == [kind |-> "CDATA"]

EntityRefToken == [kind |-> "EntityRef"]

\* A substitution value that is itself a BinXML fragment: its own fragment
\* header, its tokens, its EndOfStream.
BinXmlFragmentToken(tokens) == [kind |-> "BinXml", tokens |-> tokens]

\* The EndOfStream token of a nested fragment.
NestedEndOfStreamToken == [kind |-> "EndOfStream"]

RecordTokens ==
  {OpenElementToken(e) : e \in SbElements}
    \cup {ValueToken(v) : v \in BinXmlValues}
    \cup {CloseElementToken, CDataToken, EntityRefToken}

\* Records with substitution values that are nested fragments (some of
\* them with a nested fragment of their own).
NestedFragments ==
  {<<>>,
   <<ValueToken(StringValue("v"))>>,
   <<OpenElementToken([name |-> "b", attributes |-> <<>>]), CloseElementToken>>,
   <<BinXmlFragmentToken(<<ValueToken(StringValue("v"))>>)>>}

FragmentRecordTokens ==
  {OpenElementToken(e) : e \in BareElements}
    \cup {CloseElementToken, ValueToken(StringValue("v"))}
    \cup {BinXmlFragmentToken(f) : f \in NestedFragments}

FailedToCreateRecordModel(message) ==
  [kind |-> "Err", err |-> "FailedToCreateRecordModel", message |-> message]

OutputModes == {"xml", "visitor"}

\* The output a mode starts a record with.  (The mode "callbacks" is a
\* visitor that accepts every callback and keeps their names in order.)
NewOutput(mode, event_record_id, timestamp) ==
  IF mode = "xml" THEN XmlOutput_with_writer
  ELSE IF mode = "callbacks" THEN <<>>
  ELSE StructureBuilder_new(event_record_id, timestamp)

Delivered(output, ret) == [output |-> output, ret |-> ret]

FromXml(r) == Delivered(r.writer, r.ret)

FromSb(r) == Delivered(r.builder, r.ret)

\* One callback of the BinXmlOutput trait on the output of the given mode.
Deliver(mode, output, callback) ==
  IF mode = "xml"
    THEN CASE callback.op = "visit_start_of_stream" ->
                FromXml(XmlOutput_visit_start_of_stream(output))
           [] callback.op = "visit_open_start_element" ->
                FromXml(XmlOutput_visit_open_start_element(output, callback.element))
           [] callback.op = "visit_close_element" ->
                FromXml(XmlOutput_visit_close_element(output, callback.element))
           [] callback.op = "visit_characters" ->
                FromXml(XmlOutput_visit_characters(output, callback.value))
           [] callback.op = "visit_cdata_section" ->
                FromXml(XmlOutput_visit_cdata_section(output))
           [] callback.op = "visit_entity_reference" ->
                FromXml(XmlOutput_visit_entity_reference(output))
           [] callback.op = "visit_end_of_stream" ->
                FromXml(XmlOutput_visit_end_of_stream(output))
    ELSE IF mode = "callbacks"
    THEN Delivered(Append(output, callback.op), SerOk)
    ELSE CASE callback.op = "visit_start_of_stream" ->
                FromSb(StructureBuilder_visit_start_of_stream(output))
           [] callback.op = "visit_open_start_element" ->
                FromSb(StructureBuilder_visit_open_start_element(output, callback.element))
           [] callback.op = "visit_close_element" ->
                FromSb(StructureBuilder_visit_close_element(output, callback.element))
           [] callback.op = "visit_characters" ->
                FromSb(StructureBuilder_visit_characters(output, callback.value))
           [] callback.op = "visit_cdata_section" ->
                FromSb(StructureBuilder_visit_cdata_section(output))
           [] callback.op = "visit_entity_reference" ->
                FromSb(StructureBuilder_visit_entity_reference(output))
           [] callback.op = "visit_end_of_stream" ->
                FromSb(StructureBuilder_visit_end_of_stream(output))

\* start_of_stream for every fragment header, nested or not.
fragment_header_restarts_stream(depth) == <<[op |-> "visit_start_of_stream"]>>

\* The callbacks for the fragment header of a fragment at the given depth
\* of nesting: start_of_stream for the record's own fragment, none for a
\* fragment that is a substitution value.
fragment_header_callbacks(depth) ==
  IF depth = 0 THEN <<[op |-> "visit_start_of_stream"]>> ELSE <<>>

\* The callbacks for the EndOfStream of a fragment at the given depth:
\* end_of_stream at the outermost level only.
end_of_stream_callbacks(depth) ==
  IF depth = 0 THEN <<[op |-> "visit_end_of_stream"]>> ELSE <<>>

\* The callbacks delivered in order up to the first that does not return Ok.
RECURSIVE deliver_all(_, _, _)
deliver_all(mode, output, callbacks) ==
  IF callbacks = <<>> THEN Delivered(output, SerOk)
  ELSE LET r == Deliver(mode, output, Head(callbacks))
       IN IF r.ret.kind # "Ok" THEN r
          ELSE deliver_all(mode, r.output, Tail(callbacks))

\* The loop over the tokens of a record; stack is the driver's element stack.
RECURSIVE drive_tokens(_, _, _, _)
drive_tokens(mode, tokens, stack, output) ==
  IF tokens = <<>>
    THEN deliver_all(mode, output, end_of_stream_callbacks(0))
  ELSE IF Head(tokens).kind = "BinXml"
    THEN LET r == deliver_all(mode, output, fragment_header_callbacks(1))
         IN IF r.ret.kind # "Ok" THEN r
            ELSE drive_tokens(mode,
                              Head(tokens).tokens \o <<NestedEndOfStreamToken>>
                                \o Tail(tokens),
                              stack, r.output)
  ELSE IF Head(tokens).kind = "EndOfStream"
    THEN LET r == deliver_all(mode, output, end_of_stream_callbacks(1))
         IN IF r.ret.kind # "Ok" THEN r
            ELSE drive_tokens(mode, Tail(tokens), stack, r.output)
  ELSE
    LET t == Head(tokens)
        underflow == t.kind = "CloseElement" /\ stack = <<>>
        callback ==
          CASE t.kind = "OpenElement" ->
                 [op |-> "visit_open_start_element", element |-> t.element]
            [] t.kind = "CloseElement" ->
                 [op |-> "visit_close_element", element |-> Last(stack)]
            [] t.kind = "Value" ->
                 [op |-> "visit_characters", value |-> t.value]
            [] t.kind = "CDATA" -> [op |-> "visit_cdata_section"]
            [] t.kind = "EntityRef" -> [op |-> "visit_entity_reference"]
        stack2 ==
          CASE t.kind = "OpenElement" -> Append(stack, t.element)
            [] t.kind = "CloseElement" -> Front(stack)
            [] OTHER -> stack
    IN IF underflow
         THEN Delivered(output, FailedToCreateRecordModel("close without open"))
         ELSE LET r == Deliver(mode, output, callback)
              IN IF r.ret.kind # "Ok" THEN r
                 ELSE drive_tokens(mode, Tail(tokens), stack2, r.output)

parse_tokens(mode, tokens, event_record_id, timestamp) ==
  LET r == deliver_all(mode, NewOutput(mode, event_record_id, timestamp),
                       fragment_header_callbacks(0))
  IN IF r.ret.kind # "Ok" THEN r
     ELSE drive_tokens(mode, tokens, <<>>, r.output)

(***************************************************************************)
(* TemplateCache.  The chunk data is seen through what                     *)
(* read_template_definition finds at each offset: a definition or garbage. *)
(***************************************************************************)
Offsets == 0..MaxOffset

TemplateDefinitions == {"tplA", "tplB"}

Garbage == "garbage"

ChunkDatas == [Offsets -> TemplateDefinitions \cup {Garbage}]

OffsetTables == [1..TableLen -> Offsets]

\* read_template_definition with the cursor at `offset`.
read_template_definition(data, offset) ==
  IF offset \in DOMAIN data /\ data[offset] # Garbage
    THEN [ok |-> TRUE, definition |-> data[offset]]
    ELSE [ok |-> FALSE, err |-> "FailedToRead"]

TemplateCache_new == [o \in {} |-> Garbage]

\* What populate gives: Ok(cache) or the error, and (for the account of the
\* parsing done) the offsets read_template_definition was called at, in order.
\* (populate_until_zero is populate_loop with a zero entry taken as the end
\* of the table.)
RECURSIVE populate_until_zero(_, _, _, _, _)
populate_until_zero(data, offsets, i, cache, reads) ==
  IF i > Len(offsets) \/ offsets[i] = 0
    THEN [ok |-> TRUE, cache |-> cache, reads |-> reads]
  ELSE LET offset == offsets[i]
           definition == read_template_definition(data, offset)
       IN IF ~definition.ok
            THEN [ok |-> FALSE, err |-> definition.err,
                  reads |-> Append(reads, offset)]
            ELSE populate_until_zero(data, offsets, i + 1,
                                     HashMapInsert(cache, offset, definition.definition),
                                     Append(reads, offset))

\* populate_loop with an offset that fails to parse left out of the cache.
RECURSIVE populate_skipping_failures(_, _, _, _, _)
populate_skipping_failures(data, offsets, i, cache, reads) ==
  IF i > Len(offsets) THEN [ok |-> TRUE, cache |-> cache, reads |-> reads]
  ELSE IF ~(offsets[i] > 0)
    THEN populate_skipping_failures(data, offsets, i + 1, cache, reads)
  ELSE LET offset == offsets[i]
           definition == read_template_definition(data, offset)
       IN populate_skipping_failures(
            data, offsets, i + 1,
            IF definition.ok
              THEN HashMapInsert(cache, offset, definition.definition)
              ELSE cache,
            Append(reads, offset))

RECURSIVE populate_loop(_, _, _, _, _)
populate_loop(data, offsets, i, cache, reads) ==
  IF i > Len(offsets) THEN [ok |-> TRUE, cache |-> cache, reads |-> reads]
  ELSE IF ~(offsets[i] > 0) THEN populate_loop(data, offsets, i + 1, cache, reads)
  ELSE LET offset == offsets[i]
           definition == read_template_definition(data, offset)
       IN IF ~definition.ok
            THEN [ok |-> FALSE, err |-> definition.err,
                  reads |-> Append(reads, offset)]
            ELSE populate_loop(data, offsets, i + 1,
                               HashMapInsert(cache, offset, definition.definition),
                               Append(reads, offset))

populate(data, offsets) ==
  populate_loop(data, offsets, 1, TemplateCache_new, <<>>)

None == [some |-> FALSE]

Some(x) == [some |-> TRUE, value |-> x]

get_template(cache, offset) ==
  IF offset \in DOMAIN cache THEN Some(cache[offset]) ELSE None

len(cache) == Cardinality(DOMAIN cache)

(***************************************************************************)
(* The record iterator (spec.md 4.1, 4.6, 5, 7): a file is a header and a  *)
(* sequence of chunks, a chunk a header and a sequence of records.         *)
(***************************************************************************)
ChunkStatuses == {"ok", "bad_magic", "bad_crc", "incomplete"}

\* What is wrong with a record's BinXML, if anything.
RecordFaults == {"none", "FailedToReadNTSID"}

\* A chunk without the ids of its records.  The records of a chunk that
\* cannot be read at all are not described.
ChunkShapes ==
  {c \in [status : ChunkStatuses, faults : SeqsUpTo(RecordFaults, MaxFileRecords)] :
     c.status \in {"bad_magic", "incomplete"} => c.faults = <<>>}

RECURSIVE RecordsBefore(_, _)
RecordsBefore(shapes, n) ==
  IF n <= 1 THEN 0 ELSE RecordsBefore(shapes, n - 1) + Len(shapes[n - 1].faults)

\* Record ids count up through the file, from 1.
MakeChunk(shapes, n) ==
  [status |-> shapes[n].status,
   records |-> [i \in 1..Len(shapes[n].faults) |->
                  [event_record_id |-> RecordsBefore(shapes, n) + i,
                   fault |-> shapes[n].faults[i]]]]

\* The files of up to MaxChunks chunks and MaxFileRecords records.  Only the
\* last chunk of a file can be cut short by the end of the file.
EvtxFiles ==
  {[magic_ok |-> m, chunks |-> [n \in 1..Len(shapes) |-> MakeChunk(shapes, n)]] :
     m \in BOOLEAN,
     shapes \in {sh \in SeqsUpTo(ChunkShapes, MaxChunks) :
                   /\ RecordsBefore(sh, Len(sh) + 1) <= MaxFileRecords
                   /\ \A n \in 1..Len(sh) :
                        sh[n].status = "incomplete" => n = Len(sh)}}

ParserSettingsSet == [num_threads : 1..MaxThreads, validate_checksums : BOOLEAN]

RecordOk(event_record_id) == [kind |-> "Ok", event_record_id |-> event_record_id]

FailedToDeserializeRecord(record_id, source) ==
  [kind |-> "Err", err |-> "FailedToDeserializeRecord", record_id |-> record_id,
   source |-> source]

IncompleteChunk(chunk_number) ==
  [kind |-> "Err", err |-> "IncompleteChunk", chunk_number |-> chunk_number]

InvalidEvtxChunkMagic == [kind |-> "Err", err |-> "InvalidEvtxChunkMagic"]

InvalidEvtxFileHeaderMagic == [kind |-> "Err", err |-> "InvalidEvtxFileHeaderMagic"]

InvalidChunkChecksum == [kind |-> "Err", err |-> "InvalidChunkChecksum"]

\* (iter_records_until_error is iter_chunk_records giving up the chunk at the
\* first record that fails.)
RECURSIVE iter_records_until_error(_, _)
iter_records_until_error(records, i) ==
  IF i > Len(records) THEN <<>>
  ELSE IF records[i].fault # "none"
    THEN <<FailedToDeserializeRecord(records[i].event_record_id, records[i].fault)>>
  ELSE <<RecordOk(records[i].event_record_id)>>
         \o iter_records_until_error(records, i + 1)

\* The records of a chunk from the i-th on: one result per record, the
\* cursor moving to the next record boundary after a success and after a
\* failure alike.
RECURSIVE iter_chunk_records(_, _)
iter_chunk_records(records, i) ==
  IF i > Len(records) THEN <<>>
  ELSE LET record == records[i]
           result == IF record.fault = "none"
                       THEN RecordOk(record.event_record_id)
                       ELSE FailedToDeserializeRecord(record.event_record_id,
                                                      record.fault)
       IN <<result>> \o iter_chunk_records(records, i + 1)

\* (parse_chunk_always_validating is parse_chunk without the
\* validate_checksums setting.)
parse_chunk_always_validating(chunk, chunk_number, settings) ==
  CASE chunk.status = "incomplete" -> <<IncompleteChunk(chunk_number)>>
    [] chunk.status = "bad_magic" -> <<InvalidEvtxChunkMagic>>
    [] chunk.status = "bad_crc" -> <<InvalidChunkChecksum>>
    [] OTHER -> iter_chunk_records(chunk.records, 1)

\* What one chunk contributes to the result stream: its chunk-level error,
\* or the results of its records.
parse_chunk(chunk, chunk_number, settings) ==
  CASE chunk.status = "incomplete" -> <<IncompleteChunk(chunk_number)>>
    [] chunk.status = "bad_magic" -> <<InvalidEvtxChunkMagic>>
    [] chunk.status = "bad_crc" /\ settings.validate_checksums ->
         <<InvalidChunkChecksum>>
    [] OTHER -> iter_chunk_records(chunk.records, 1)

(***************************************************************************)
(* State.                                                                  *)
(***************************************************************************)
VARIABLES
  xml_writer,       \* XmlOutput.writer: the events written to the sink
  xml_before,       \* the events written before the last XmlOutput callback
  xml_ret,          \* what the last XmlOutput callback returned
  xml_call,         \* the last XmlOutput callback and its argument
  xml_calls,        \* number of XmlOutput callbacks made
  builder,          \* the StructureBuilder: result and node_stack
  sb_ret,           \* what the last StructureBuilder call returned
  sb_call,          \* the last StructureBuilder call and its argument
  sb_calls,         \* number of StructureBuilder calls made
  structure,        \* what the last get_structure returned
  sb_before,        \* the StructureBuilder before the last call
  sb_args,          \* the arguments StructureBuilder::new was given
  sb_opens,         \* number of visit_open_start_element calls that returned
  sb_closes,        \* number of visit_close_element calls that returned
  sb_trace,         \* the element callbacks of the stream so far, in order
  sb_phase,         \* position in the stream: "new", "stream", "ended", "got"
  record,           \* the record given to every output mode
  outcome,          \* per output mode: what the record's run returned and built
  chunk_data,       \* the chunk's bytes, as read_template_definition sees them
  template_offsets, \* the chunk header's template offset table
  cache,            \* the chunk's TemplateCache
  cache_state,      \* "closed", "open" (populate returned Ok) or "failed"
  reads,            \* per offset: the calls of read_template_definition there
  instances,        \* number of template instances expanded
  resolved,         \* the last template instance: offset, lookup, definition
  populated,        \* what populate returned: Ok(cache) or Err(error)
  file,             \* the EVTX file
  settings,         \* ParserSettings
  iter_state,       \* "new", "running" or "done"
  chunk_cursor,     \* number of the next chunk to hand to a worker
  batch,            \* the chunks being parsed: slot -> chunk_number, done, results
  finished,         \* the slots of the batch in the order their workers finished
  out               \* the results yielded so far

xmlVars == <<xml_writer, xml_before, xml_ret, xml_call, xml_calls>>

sbVars == <<builder, sb_ret, sb_call, sb_calls, structure, sb_before, sb_args,
            sb_opens, sb_closes, sb_trace, sb_phase>>

modeVars == <<record, outcome>>

cacheVars == <<chunk_data, template_offsets, cache, cache_state, reads,
               instances, resolved, populated>>

iterVars == <<file, settings, iter_state, chunk_cursor, batch, finished, out>>

vars == <<xmlVars, sbVars, modeVars, cacheVars, iterVars>>

NoCall == [op |-> "none"]

EventRecordIds == {1, 2}

Timestamps == {EpochTimestamp, 1}

InitXml ==
  /\ xml_writer = XmlOutput_with_writer
  /\ xml_before = XmlOutput_with_writer
  /\ xml_ret = SerOk
  /\ xml_call = NoCall
  /\ xml_calls = 0

InitSbWith(event_record_id, timestamp) ==
  /\ builder = StructureBuilder_new(event_record_id, timestamp)
  /\ sb_before = StructureBuilder_new(event_record_id, timestamp)
  /\ sb_args = [event_record_id |-> event_record_id, timestamp |-> timestamp]
  /\ sb_ret = SerOk
  /\ sb_call = NoCall
  /\ sb_calls = 0
  /\ structure = None
  /\ sb_opens = 0
  /\ sb_closes = 0
  /\ sb_trace = <<>>
  /\ sb_phase = "new"

InitSb == \E id \in EventRecordIds, ts \in Timestamps : InitSbWith(id, ts)

IdleSb == InitSbWith(1, 1)

Pending == [kind |-> "Pending"]

InitModes ==
  /\ \E tokens \in SeqsUpTo(RecordTokens, MaxTokens) :
       record = [event_record_id |-> 1, timestamp |-> 1, tokens |-> tokens]
  /\ outcome = [m \in OutputModes |-> Pending]

InitNested ==
  /\ \E tokens \in SeqsUpTo(FragmentRecordTokens, MaxTokens) :
       record = [event_record_id |-> 1, timestamp |-> 1, tokens |-> tokens]
  /\ outcome = [m \in OutputModes |-> Pending]

IdleModes ==
  /\ record = [event_record_id |-> 1, timestamp |-> 1, tokens |-> <<>>]
  /\ outcome = [m \in OutputModes |-> Pending]

NoReads == [o \in Offsets |-> 0]

InitCacheWith(data, offsets) ==
  /\ chunk_data = data
  /\ template_offsets = offsets
  /\ cache = TemplateCache_new
  /\ cache_state = "closed"
  /\ reads = NoReads
  /\ instances = 0
  /\ resolved = None
  /\ populated = None

InitCache == \E data \in ChunkDatas, offsets \in OffsetTables : InitCacheWith(data, offsets)

IdleCache == InitCacheWith([o \in Offsets |-> Garbage], [i \in 1..TableLen |-> 0])

InitIterWith(f, s) ==
  /\ file = f
  /\ settings = s
  /\ iter_state = "new"
  /\ chunk_cursor = 1
  /\ batch = <<>>
  /\ finished = <<>>
  /\ out = <<>>

InitIter == \E f \in EvtxFiles, s \in ParserSettingsSet : InitIterWith(f, s)

IdleIter ==
  InitIterWith([magic_ok |-> TRUE, chunks |-> <<>>],
               [num_threads |-> 1, validate_checksums |-> FALSE])

(***************************************************************************)
(* XmlOutput driven by an arbitrary caller.                                *)
(***************************************************************************)
XmlStep(r, call) ==
  /\ xml_calls < MaxXmlCalls
  /\ xml_writer' = r.writer
  /\ xml_before' = xml_writer
  /\ xml_ret' = r.ret
  /\ xml_call' = call
  /\ xml_calls' = xml_calls + 1
  /\ UNCHANGED <<sbVars, modeVars, cacheVars, iterVars>>

XmlVisitStartOfStream ==
  XmlStep(XmlOutput_visit_start_of_stream(xml_writer),
          [op |-> "visit_start_of_stream"])

XmlVisitOpenStartElement ==
  \E element \in XmlElements :
    XmlStep(XmlOutput_visit_open_start_element(xml_writer, element),
            [op |-> "visit_open_start_element", element |-> element])

XmlVisitCloseElement ==
  \E element \in BareElements :
    XmlStep(XmlOutput_visit_close_element(xml_writer, element),
            [op |-> "visit_close_element", element |-> element])

XmlVisitCharacters ==
  \E value \in BinXmlValues :
    XmlStep(XmlOutput_visit_characters(xml_writer, value),
            [op |-> "visit_characters", value |-> value])

XmlVisitCdataSection ==
  XmlStep(XmlOutput_visit_cdata_section(xml_writer),
          [op |-> "visit_cdata_section"])

XmlVisitEntityReference ==
  XmlStep(XmlOutput_visit_entity_reference(xml_writer),
          [op |-> "visit_entity_reference"])

XmlVisitProcessingInstructionTarget ==
  XmlStep(XmlOutput_visit_processing_instruction_target(xml_writer),
          [op |-> "visit_processing_instruction_target"])

XmlVisitProcessingInstructionData ==
  XmlStep(XmlOutput_visit_processing_instruction_data(xml_writer),
          [op |-> "visit_processing_instruction_data"])

XmlVisitEndOfStream ==
  XmlStep(XmlOutput_visit_end_of_stream(xml_writer),
          [op |-> "visit_end_of_stream"])

NextXml ==
  \/ XmlVisitStartOfStream
  \/ XmlVisitOpenStartElement
  \/ XmlVisitCloseElement
  \/ XmlVisitCharacters
  \/ XmlVisitCdataSection
  \/ XmlVisitEntityReference
  \/ XmlVisitProcessingInstructionTarget
  \/ XmlVisitProcessingInstructionData
  \/ XmlVisitEndOfStream

InitSpecXml == InitXml /\ IdleSb /\ IdleModes /\ IdleCache /\ IdleIter

SpecXml == InitSpecXml /\ [][NextXml]_vars

(***************************************************************************)
(* StructureBuilder driven by an arbitrary caller.  After a panic the      *)
(* builder is gone.                                                        *)
(***************************************************************************)
\* What every StructureBuilder call does to the state: the builder and what
\* was returned, and the account of the calls.
SbCall(r, call) ==
  /\ sb_ret.kind # "Panic"
  /\ sb_before' = builder
  /\ builder' = r.builder
  /\ sb_ret' = r.ret
  /\ sb_call' = call
  /\ sb_calls' = sb_calls + 1
  /\ sb_opens' = IF call.op = "visit_open_start_element" /\ r.ret.kind # "Panic"
                   THEN sb_opens + 1 ELSE sb_opens
  /\ sb_closes' = IF call.op = "visit_close_element" /\ r.ret.kind # "Panic"
                    THEN sb_closes + 1 ELSE sb_closes
  /\ UNCHANGED <<sb_args, xmlVars, modeVars, cacheVars, iterVars>>

SbStep(r, call) ==
  /\ sb_calls < MaxSbCalls
  /\ SbCall(r, call)
  /\ UNCHANGED <<structure, sb_trace, sb_phase>>

SbVisitStartOfStream ==
  SbStep(StructureBuilder_visit_start_of_stream(builder),
         [op |-> "visit_start_of_stream"])

SbVisitOpenStartElement ==
  \E element \in BuilderElements :
    SbStep(StructureBuilder_visit_open_start_element(builder, element),
           [op |-> "visit_open_start_element", element |-> element])

SbVisitCloseElement ==
  \E element \in BareElements :
    SbStep(StructureBuilder_visit_close_element(builder, element),
           [op |-> "visit_close_element", element |-> element])

SbVisitCharacters ==
  \E value \in BinXmlValues :
    SbStep(StructureBuilder_visit_characters(builder, value),
           [op |-> "visit_characters", value |-> value])

SbVisitCdataSection ==
  SbStep(StructureBuilder_visit_cdata_section(builder),
         [op |-> "visit_cdata_section"])

SbVisitEntityReference ==
  SbStep(StructureBuilder_visit_entity_reference(builder),
         [op |-> "visit_entity_reference"])

SbVisitCharacterReference ==
  SbStep(StructureBuilder_visit_character_reference(builder),
         [op |-> "visit_character_reference"])

SbVisitProcessingInstruction ==
  SbStep(StructureBuilder_visit_processing_instruction(builder),
         [op |-> "visit_processing_instruction"])

SbVisitEndOfStream ==
  SbStep(StructureBuilder_visit_end_of_stream(builder),
         [op |-> "visit_end_of_stream"])

SbGetStructure ==
  /\ sb_calls < MaxSbCalls
  /\ LET g == get_structure(builder)
     IN /\ SbCall(SbResult(g.builder, sb_ret), [op |-> "get_structure"])
        /\ structure' = Some(g.structure)
  /\ UNCHANGED <<sb_trace, sb_phase>>

NextSb ==
  \/ SbVisitStartOfStream
  \/ SbVisitOpenStartElement
  \/ SbVisitCloseElement
  \/ SbVisitCharacters
  \/ SbVisitCdataSection
  \/ SbVisitEntityReference
  \/ SbVisitCharacterReference
  \/ SbVisitProcessingInstruction
  \/ SbVisitEndOfStream
  \/ SbGetStructure

InitSpecSb == InitSb /\ InitXml /\ IdleModes /\ IdleCache /\ IdleIter

SpecSb == InitSpecSb /\ [][NextSb]_vars

(***************************************************************************)
(* StructureBuilder driven through one record in document order:           *)
(* start_of_stream, element callbacks (characters and close only while an  *)
(* element is open), end_of_stream once every element is closed, and       *)
(* get_structure.                                                          *)
(***************************************************************************)
TreeStep(r, call, phase) ==
  /\ SbCall(r, call)
  /\ sb_phase' = phase
  /\ UNCHANGED structure

TreeEvent(r, call) ==
  /\ sb_phase = "stream"
  /\ Len(sb_trace) < MaxTreeEvents
  /\ TreeStep(r, call, "stream")
  /\ sb_trace' = Append(sb_trace, call)

TreeStartOfStream ==
  /\ sb_phase = "new"
  /\ TreeStep(StructureBuilder_visit_start_of_stream(builder),
              [op |-> "visit_start_of_stream"], "stream")
  /\ UNCHANGED sb_trace

TreeOpenStartElement ==
  \E element \in BuilderElements :
    TreeEvent(StructureBuilder_visit_open_start_element(builder, element),
              [op |-> "visit_open_start_element", element |-> element])

TreeCharacters ==
  /\ sb_opens > sb_closes
  /\ \E value \in {NullValue, StringValue("v")} :
       TreeEvent(StructureBuilder_visit_characters(builder, value),
                 [op |-> "visit_characters", value |-> value])

TreeCloseElement ==
  /\ sb_opens > sb_closes
  /\ \E element \in {e \in BareElements : e.name = "a"} :
       TreeEvent(StructureBuilder_visit_close_element(builder, element),
                 [op |-> "visit_close_element", element |-> element])

TreeEndOfStream ==
  /\ sb_phase = "stream"
  /\ sb_opens = sb_closes
  /\ TreeStep(StructureBuilder_visit_end_of_stream(builder),
              [op |-> "visit_end_of_stream"], "ended")
  /\ UNCHANGED sb_trace

TreeGetStructure ==
  /\ sb_phase = "ended"
  /\ LET g == get_structure(builder)
     IN /\ SbCall(SbResult(g.builder, sb_ret), [op |-> "get_structure"])
        /\ structure' = Some(g.structure)
  /\ sb_phase' = "got"
  /\ UNCHANGED sb_trace

NextTree ==
  \/ TreeStartOfStream
  \/ TreeOpenStartElement
  \/ TreeCharacters
  \/ TreeCloseElement
  \/ TreeEndOfStream
  \/ TreeGetStructure

InitTree == \E id \in EventRecordIds : InitSbWith(id, 1)

InitSpecTree == InitTree /\ InitXml /\ IdleModes /\ IdleCache /\ IdleIter

SpecTree == InitSpecTree /\ [][NextTree]_vars

(***************************************************************************)
(* One record run through each output mode by the visitor driver.          *)
(***************************************************************************)
RunMode(mode) ==
  /\ outcome[mode] = Pending
  /\ outcome' = [outcome EXCEPT ![mode] =
       LET r == parse_tokens(mode, record.tokens, record.event_record_id,
                             record.timestamp)
       IN [kind |-> r.ret.kind, ret |-> r.ret, output |-> r.output]]
  /\ UNCHANGED <<record, xmlVars, sbVars, cacheVars, iterVars>>

NextModes == \E mode \in OutputModes : RunMode(mode)

InitSpecModes == InitModes /\ InitXml /\ IdleSb /\ IdleCache /\ IdleIter

SpecModes == InitSpecModes /\ [][NextModes]_vars

\* The same, for records with nested fragments.
InitSpecNested == InitNested /\ InitXml /\ IdleSb /\ IdleCache /\ IdleIter

SpecNested == InitSpecNested /\ [][NextModes]_vars

(***************************************************************************)
(* A chunk's template cache: populated when the chunk is opened, consulted *)
(* for every template instance of the chunk's records.                     *)
(***************************************************************************)
\* Number of occurrences of x in the sequence s.
Count(s, x) == Cardinality({i \in 1..Len(s) : s[i] = x})

\* Opening the chunk: TemplateCache::populate on the chunk's offset table.
ChunkOpen ==
  /\ cache_state = "closed"
  /\ LET r == populate(chunk_data, template_offsets)
     IN /\ cache' = IF r.ok THEN r.cache ELSE TemplateCache_new
        /\ cache_state' = IF r.ok THEN "open" ELSE "failed"
        /\ reads' = [o \in Offsets |-> reads[o] + Count(r.reads, o)]
        /\ populated' = Some(IF r.ok THEN [ok |-> TRUE, cache |-> r.cache]
                                     ELSE [ok |-> FALSE, err |-> r.err])
  /\ UNCHANGED <<chunk_data, template_offsets, instances, resolved>>
  /\ UNCHANGED <<xmlVars, sbVars, modeVars, iterVars>>

\* A template instance whose definition is at `offset`: the cached
\* definition when get_template finds one, else the definition is parsed
\* in place.  TemplateCache has no operation that adds to a populated cache.
ExpandTemplateInstance(offset) ==
  /\ cache_state = "open"
  /\ instances < MaxInstances
  /\ instances' = instances + 1
  /\ LET lookup == get_template(cache, offset)
         parsed == read_template_definition(chunk_data, offset)
     IN IF lookup.some
          THEN /\ resolved' = Some([offset |-> offset, cached |-> TRUE,
                                    definition |-> lookup])
               /\ reads' = reads
          ELSE /\ resolved' = Some([offset |-> offset, cached |-> FALSE,
                                    definition |-> IF parsed.ok
                                                     THEN Some(parsed.definition)
                                                     ELSE None])
               /\ reads' = [reads EXCEPT ![offset] = @ + 1]
  /\ UNCHANGED <<chunk_data, template_offsets, cache, cache_state, populated>>
  /\ UNCHANGED <<xmlVars, sbVars, modeVars, iterVars>>

NextCache ==
  \/ ChunkOpen
  \/ \E offset \in Offsets : ExpandTemplateInstance(offset)

InitSpecCache == InitCache /\ InitXml /\ IdleSb /\ IdleModes /\ IdleIter

SpecCache == InitSpecCache /\ [][NextCache]_vars

(***************************************************************************)
(* The record iterator: chunks are handed to num_threads workers at a      *)
(* time, each worker parses its chunk on its own, and the results of a     *)
(* batch join the result stream by chunk number.                           *)
(***************************************************************************)
Min(a, b) == IF a < b THEN a ELSE b

RECURSIVE Flatten(_)
Flatten(ss) == IF ss = <<>> THEN <<>> ELSE Head(ss) \o Flatten(Tail(ss))

\* (results_in_completion_order is batch_results taking the chunks in the
\* order in which their workers finished.)
results_in_completion_order(slots, order) ==
  Flatten([k \in 1..Len(order) |-> slots[order[k]].results])

\* The results of a finished batch, in the order of the chunks in the file.
batch_results(slots, order) ==
  Flatten([k \in 1..Len(slots) |-> slots[k].results])

\* Opening the file: a bad file header ends the iteration before any chunk.
IterOpen ==
  /\ iter_state = "new"
  /\ IF file.magic_ok
       THEN iter_state' = "running" /\ out' = out
       ELSE iter_state' = "done" /\ out' = Append(out, InvalidEvtxFileHeaderMagic)
  /\ UNCHANGED <<file, settings, chunk_cursor, batch, finished>>
  /\ UNCHANGED <<xmlVars, sbVars, modeVars, cacheVars>>

\* The next num_threads chunks (or those left) go to the workers.
Dispatch ==
  /\ iter_state = "running"
  /\ batch = <<>>
  /\ chunk_cursor <= Len(file.chunks)
  /\ LET last == Min(chunk_cursor + settings.num_threads - 1, Len(file.chunks))
     IN /\ batch' = [k \in 1..(last - chunk_cursor + 1) |->
                       [chunk_number |-> chunk_cursor + k - 1, done |-> FALSE,
                        results |-> <<>>]]
        /\ chunk_cursor' = last + 1
  /\ finished' = <<>>
  /\ UNCHANGED <<file, settings, iter_state, out>>
  /\ UNCHANGED <<xmlVars, sbVars, modeVars, cacheVars>>

\* The worker of one slot parses its chunk to the end.
WorkerParse(k) ==
  /\ iter_state = "running"
  /\ k \in DOMAIN batch
  /\ ~batch[k].done
  /\ LET n == batch[k].chunk_number
     IN batch' = [batch EXCEPT ![k] =
          [chunk_number |-> n, done |-> TRUE,
           results |-> parse_chunk(file.chunks[n], n, settings)]]
  /\ finished' = Append(finished, k)
  /\ UNCHANGED <<file, settings, iter_state, chunk_cursor, out>>
  /\ UNCHANGED <<xmlVars, sbVars, modeVars, cacheVars>>

\* (CollectEndingAtChunkError is Collect ending the iteration when a chunk
\* of the batch gave a chunk-level error.)
CollectEndingAtChunkError ==
  /\ iter_state = "running"
  /\ batch # <<>>
  /\ \A k \in DOMAIN batch : batch[k].done
  /\ out' = out \o batch_results(batch, finished)
  /\ batch' = <<>>
  /\ iter_state' =
       IF \E k \in DOMAIN batch :
            \E j \in DOMAIN batch[k].results :
              /\ batch[k].results[j].kind = "Err"
              /\ batch[k].results[j].err # "FailedToDeserializeRecord"
         THEN "done" ELSE iter_state
  /\ UNCHANGED <<file, settings, chunk_cursor, finished>>
  /\ UNCHANGED <<xmlVars, sbVars, modeVars, cacheVars>>

\* Once every worker of the batch is done, its results are yielded.
Collect ==
  /\ iter_state = "running"
  /\ batch # <<>>
  /\ \A k \in DOMAIN batch : batch[k].done
  /\ out' = out \o batch_results(batch, finished)
  /\ batch' = <<>>
  /\ UNCHANGED <<file, settings, iter_state, chunk_cursor, finished>>
  /\ UNCHANGED <<xmlVars, sbVars, modeVars, cacheVars>>

\* No chunk is left: the iterator is exhausted.
Finish ==
  /\ iter_state = "running"
  /\ batch = <<>>
  /\ chunk_cursor > Len(file.chunks)
  /\ iter_state' = "done"
  /\ UNCHANGED <<file, settings, chunk_cursor, batch, finished, out>>
  /\ UNCHANGED <<xmlVars, sbVars, modeVars, cacheVars>>

NextIter ==
  \/ IterOpen
  \/ Dispatch
  \/ \E k \in 1..MaxThreads : WorkerParse(k)
  \/ Collect
  \/ Finish

InitSpecIter == InitIter /\ InitXml /\ IdleSb /\ IdleModes /\ IdleCache

SpecIter == InitSpecIter /\ [][NextIter]_vars

(***************************************************************************)
(* Properties of the record iterator (checked under SpecIter).             *)
(***************************************************************************)
\* A chunk whose records are read: it is intact, or only its CRC is wrong
\* and checksums are not validated.
Readable(n) ==
  \/ file.chunks[n].status = "ok"
  \/ file.chunks[n].status = "bad_crc" /\ ~settings.validate_checksums

\* The positions of the result stream that are about the record with this id.
ResultsOfRecord(id) ==
  {k \in DOMAIN out :
     \/ out[k].kind = "Ok" /\ out[k].event_record_id = id
     \/ /\ out[k].kind = "Err"
        /\ out[k].err = "FailedToDeserializeRecord"
        /\ out[k].record_id = id}

\* The records of the readable chunks, as <<chunk number, index>>.
ReadRecords ==
  {p \in (1..Len(file.chunks)) \X (1..MaxFileRecords + 1) :
     Readable(p[1]) /\ p[2] <= Len(file.chunks[p[1]].records)}

RecordAt(p) == file.chunks[p[1]].records[p[2]]

Before(p, q) == p[1] < q[1] \/ (p[1] = q[1] /\ p[2] < q[2])

\* C1: once the iteration of a file with a good header is over, every record
\* of every chunk that was read has exactly one result in the stream: the
\* error FailedToDeserializeRecord with its record id and the cause if its
\* deserialization failed, Ok otherwise; and the results stand in the order
\* of the records, so the records after a failing one (in its chunk and in
\* later chunks) are all yielded.
C1_FailingRecordIsOneErrorAndIterationGoesOn ==
  (iter_state = "done" /\ file.magic_ok) =>
    \A p \in ReadRecords :
      LET r == RecordAt(p)
          at == ResultsOfRecord(r.event_record_id)
      IN /\ Cardinality(at) = 1
         /\ \A k \in at :
              out[k] = IF r.fault = "none"
                         THEN RecordOk(r.event_record_id)
                         ELSE FailedToDeserializeRecord(r.event_record_id, r.fault)
         /\ \A q \in ReadRecords :
              Before(p, q) =>
                \A k \in at, j \in ResultsOfRecord(RecordAt(q).event_record_id) :
                  k < j

\* A finished iteration over a file in which a failing record is followed by
\* a record of the same chunk and by a record of the next chunk.
C1_Witness ==
  /\ iter_state = "done"
  /\ file.magic_ok
  /\ \E p \in ReadRecords :
       /\ RecordAt(p).fault # "none"
       /\ <<p[1], p[2] + 1>> \in ReadRecords
       /\ <<p[1] + 1, 1>> \in ReadRecords
       /\ ResultsOfRecord(RecordAt(<<p[1] + 1, 1>>).event_record_id) # {}

\* What iterating chunk by chunk, one chunk at a time, yields.
RECURSIVE ChunkByChunk(_)
ChunkByChunk(n) ==
  IF n = 0 THEN <<>>
  ELSE ChunkByChunk(n - 1) \o parse_chunk(file.chunks[n], n, settings)

SingleThreadedStream ==
  IF file.magic_ok THEN ChunkByChunk(Len(file.chunks))
  ELSE <<InvalidEvtxFileHeaderMagic>>

IsPrefix(s, t) == Len(s) <= Len(t) /\ s = SubSeq(t, 1, Len(s))

\* C3: whatever num_threads is and in whatever order the workers finish,
\* the results yielded so far are a prefix of the stream of the
\* single-threaded iteration (chunks in file order, each chunk's records in
\* their order), and the finished iteration has yielded exactly that stream.
C3_ParallelYieldsTheSingleThreadedStream ==
  /\ IsPrefix(out, SingleThreadedStream)
  /\ iter_state = "done" => out = SingleThreadedStream

\* A finished iteration with more than one thread whose last batch had the
\* worker of the later chunk finish first, both chunks having results.
C3_Witness ==
  /\ iter_state = "done"
  /\ settings.num_threads > 1
  /\ Len(finished) >= 2
  /\ finished[1] > finished[2]
  /\ \A n \in 1..Len(file.chunks) : Readable(n) /\ file.chunks[n].records # <<>>
  /\ Len(out) >= 2

\* The results of the records of chunk n, from the file alone.
RecordResults(n) ==
  [i \in 1..Len(file.chunks[n].records) |->
     LET r == file.chunks[n].records[i]
     IN IF r.fault = "none" THEN RecordOk(r.event_record_id)
        ELSE FailedToDeserializeRecord(r.event_record_id, r.fault)]

RECURSIVE RecordResultsOfChunks(_, _)
RecordResultsOfChunks(from, to) ==
  IF from > to THEN <<>>
  ELSE RecordResults(from) \o RecordResultsOfChunks(from + 1, to)

\* The file has a good header and exactly one chunk with a wrong CRC, the
\* k-th; its other chunks are intact.
OnlyCrcOfChunkIsWrong(k) ==
  /\ file.magic_ok
  /\ k \in 1..Len(file.chunks)
  /\ \A n \in 1..Len(file.chunks) :
       file.chunks[n].status = IF n = k THEN "bad_crc" ELSE "ok"

\* With validate_checksums off no checksum error is surfaced and the
\* records of every chunk are yielded.
ChecksumsIgnored ==
  (iter_state = "done" /\ ~settings.validate_checksums
     /\ \E k \in 1..Len(file.chunks) : OnlyCrcOfChunkIsWrong(k)) =>
    out = RecordResultsOfChunks(1, Len(file.chunks))

\* C4 as claimed: with validate_checksums on, the stream is the records of
\* the chunks before the corrupted one and then the one checksum error, and
\* nothing else.
C4_Original_StreamEndsAtTheChecksumError ==
  /\ ChecksumsIgnored
  /\ \A k \in 1..Len(file.chunks) :
       (iter_state = "done" /\ settings.validate_checksums
          /\ OnlyCrcOfChunkIsWrong(k)) =>
         out = RecordResultsOfChunks(1, k - 1) \o <<InvalidChunkChecksum>>

\* C4, amended: with validate_checksums on, the stream is the records of the
\* chunks before the corrupted one, the one checksum error in its place,
\* and then the records of the chunks after it; with validate_checksums off
\* no checksum error is surfaced and the records of every chunk are yielded.
C4_ChecksumErrorReplacesOnlyItsChunk ==
  /\ ChecksumsIgnored
  /\ \A k \in 1..Len(file.chunks) :
       (iter_state = "done" /\ settings.validate_checksums
          /\ OnlyCrcOfChunkIsWrong(k)) =>
         out = RecordResultsOfChunks(1, k - 1) \o <<InvalidChunkChecksum>>
                 \o RecordResultsOfChunks(k + 1, Len(file.chunks))

\* A finished, validating iteration over a file whose corrupted chunk has
\* records itself, records before it and records after it.
C4_Witness ==
  /\ iter_state = "done"
  /\ settings.validate_checksums
  /\ \E k \in 1..Len(file.chunks) :
       /\ OnlyCrcOfChunkIsWrong(k)
       /\ file.chunks[k].records # <<>>
       /\ k < Len(file.chunks)
       /\ file.chunks[k + 1].records # <<>>

\* The chunk-level error of chunk n, if it has one.
ChunkError(n) ==
  CASE file.chunks[n].status = "bad_magic" -> Some(InvalidEvtxChunkMagic)
    [] file.chunks[n].status = "incomplete" -> Some(IncompleteChunk(n))
    [] file.chunks[n].status = "bad_crc" /\ settings.validate_checksums ->
         Some(InvalidChunkChecksum)
    [] OTHER -> None

RECURSIVE StreamOfChunks(_, _)
StreamOfChunks(from, to) ==
  IF from > to THEN <<>>
  ELSE (IF ChunkError(from).some THEN <<ChunkError(from).value>>
        ELSE RecordResults(from))
         \o StreamOfChunks(from + 1, to)

\* C5: a chunk with a chunk-level error contributes that one error and none
\* of its records, and every other chunk, before or after it, contributes
\* the results of all its records; a bad file header alone ends the
\* iteration, with that error and no record.
C5_ChunkErrorEndsOnlyItsChunk ==
  iter_state = "done" =>
    out = IF file.magic_ok THEN StreamOfChunks(1, Len(file.chunks))
          ELSE <<InvalidEvtxFileHeaderMagic>>

\* A finished iteration over a file whose first chunk has a chunk-level
\* error and whose next chunk has records, which were yielded after it.
C5_Witness ==
  /\ iter_state = "done"
  /\ file.magic_ok
  /\ Len(file.chunks) >= 2
  /\ ChunkError(1).some
  /\ ~ChunkError(2).some
  /\ file.chunks[2].records # <<>>
  /\ Len(out) = 1 + Len(file.chunks[2].records)

(***************************************************************************)
(* Properties of the output modes (checked under SpecModes).               *)
(***************************************************************************)
\* C2: once the record has been run in every output mode, its outcome is of
\* the same kind in all of them: Ok in every mode or an error in every
\* mode.  (Stated for the two modes whose adapters are XmlOutput and
\* StructureBuilder.)
C2_SameOutcomeInEveryMode ==
  (\A m \in OutputModes : outcome[m] # Pending) =>
    \A m1, m2 \in OutputModes : outcome[m1].kind = outcome[m2].kind

\* The names of the attributes that the record's elements carry only with a
\* Null value.
NullOnlyAttrNames ==
  LET attrs == UNION {{record.tokens[i].element.attributes[j] :
                         j \in DOMAIN record.tokens[i].element.attributes} :
                      i \in {i \in DOMAIN record.tokens :
                               record.tokens[i].kind = "OpenElement"}}
  IN {a.name : a \in {a \in attrs : a.value = NullValue}}
       \ {a.name : a \in {a \in attrs : a.value # NullValue}}

\* The attribute names written to the XML sink.
WrittenAttrNames(writer) ==
  UNION {{writer[k].attributes[j].key : j \in DOMAIN writer[k].attributes} :
         k \in {k \in DOMAIN writer : writer[k].type = "Start"}}

\* The attribute names in an element of the built structure and below it.
RECURSIVE ElementAttrNames(_)
ElementAttrNames(element) ==
  DOMAIN element.attributes
    \cup (IF element.content.type = "Complex"
            THEN UNION {ElementAttrNames(element.content.children[i]) :
                        i \in DOMAIN element.content.children}
            ELSE {})

\* The attribute names anywhere in a StructureBuilder.
BuiltAttrNames(b) ==
  ElementAttrNames(b.result.content)
    \cup UNION {ElementAttrNames(b.node_stack[i]) : i \in DOMAIN b.node_stack}

\* C9: the name of an attribute whose value is Null is neither written to
\* the XML sink nor put into the structure that StructureBuilder builds.
C9_NullAttributeIsInNoOutput ==
  /\ outcome["xml"] # Pending =>
       WrittenAttrNames(outcome["xml"].output) \cap NullOnlyAttrNames = {}
  /\ outcome["visitor"] # Pending =>
       BuiltAttrNames(outcome["visitor"].output) \cap NullOnlyAttrNames = {}

(***************************************************************************)
(* Properties of the template cache (checked under SpecCache).             *)
(***************************************************************************)
\* C6: in one chunk, read_template_definition is called at most once at
\* any offset, whatever the offset table holds and however many template
\* instances refer to the offset.
C6_TemplateParsedAtMostOnce ==
  \A o \in Offsets : reads[o] <= 1

NonZeroEntries == {template_offsets[i] : i \in DOMAIN template_offsets} \ {0}

\* C7: after a successful populate, get_template(o) gives a definition
\* exactly for the non-zero entries o of the offset table, namely the
\* definition found at position o of the chunk data, and len() is the
\* number of distinct non-zero entries.
C7_CacheHoldsTheTableOffsets ==
  cache_state = "open" =>
    /\ \A o \in Offsets :
         /\ get_template(cache, o).some <=> o \in NonZeroEntries
         /\ o \in NonZeroEntries =>
              get_template(cache, o) = Some(chunk_data[o])
    /\ len(cache) = Cardinality(NonZeroEntries)

\* A populated cache of a table with a zero entry before a non-zero one and
\* with a non-zero offset in two slots.
C7_Witness ==
  /\ cache_state = "open"
  /\ \E i, j \in DOMAIN template_offsets :
       i < j /\ template_offsets[i] = 0 /\ template_offsets[j] > 0
  /\ \E i, j \in DOMAIN template_offsets :
       i # j /\ template_offsets[i] > 0 /\ template_offsets[i] = template_offsets[j]
  /\ len(cache) = 1

\* C8: once a template instance had its definition parsed in place, the
\* cache holds the definition of that offset (so that later instances find
\* it there).
C8_InlineTemplateIsCached ==
  (resolved.some /\ ~resolved.value.cached /\ resolved.value.definition.some) =>
    get_template(cache, resolved.value.offset) = resolved.value.definition

\* The slots of the offset table with a non-zero offset at which no
\* definition can be parsed.
FailingSlots ==
  {i \in DOMAIN template_offsets :
     /\ template_offsets[i] > 0
     /\ ~read_template_definition(chunk_data, template_offsets[i]).ok}

\* C21: populate returns Ok, with a cache, iff a definition could be parsed
\* at every non-zero offset of the table; if not, it returns the error of
\* the first slot that fails and nothing else: no cache, whatever was
\* parsed before that slot, and no slot after it is read.
C21_PopulateIsAllOrNothing ==
  cache_state # "closed" =>
    /\ populated.some
    /\ FailingSlots = {} =>
         /\ cache_state = "open"
         /\ populated.value = [ok |-> TRUE, cache |-> cache]
    /\ FailingSlots # {} =>
         LET first == CHOOSE i \in FailingSlots : \A j \in FailingSlots : i <= j
         IN /\ cache_state = "failed"
            /\ populated.value = [ok |-> FALSE, err |-> "FailedToRead"]
            /\ DOMAIN populated.value = {"ok", "err"}
            /\ \A o \in Offsets :
                 reads[o] = Cardinality({i \in 1..first :
                                           template_offsets[i] > 0
                                           /\ template_offsets[i] = o})

\* populate has failed at the second non-zero offset of the table, after a
\* definition was parsed at the first.
C21_Witness ==
  /\ cache_state = "failed"
  /\ \E i, j \in DOMAIN template_offsets :
       /\ i < j
       /\ template_offsets[i] > 0
       /\ read_template_definition(chunk_data, template_offsets[i]).ok
       /\ j \in FailingSlots
       /\ \A k \in FailingSlots : j <= k
       /\ reads[template_offsets[i]] = 1
  /\ ~populated.value.ok

(***************************************************************************)
(* Properties of XmlOutput (checked under SpecXml).                        *)
(***************************************************************************)
\* The indices of the attributes whose value renders to a non-empty string.
RenderedNonEmpty(attributes) ==
  {i \in DOMAIN attributes : as_cow_str(attributes[i].value) # ""}

\* The k-th smallest element of a set of numbers.
NthOf(S, k) == CHOOSE i \in S : Cardinality({j \in S : j < i}) = k - 1

\* C10: visit_open_start_element returns Ok and adds to the sink one start
\* tag, with the element's name and with exactly the attributes of the
\* element whose value renders to a non-empty string, in their order.
C10_StartTagOmitsEmptyAttributes ==
  xml_call.op = "visit_open_start_element" =>
    LET element == xml_call.element
        keep == RenderedNonEmpty(element.attributes)
    IN /\ xml_ret = SerOk
       /\ Len(xml_writer) = Len(xml_before) + 1
       /\ Front(xml_writer) = xml_before
       /\ Last(xml_writer).type = "Start"
       /\ Last(xml_writer).name = element.name
       /\ Len(Last(xml_writer).attributes) = Cardinality(keep)
       /\ \A k \in 1..Cardinality(keep) :
            LET a == element.attributes[NthOf(keep, k)]
            IN Last(xml_writer).attributes[k] =
                 [key |-> a.name, value |-> as_cow_str(a.value)]

\* A start tag written, after an earlier event, for an element with a Null
\* attribute followed by an attribute with a value.
C10_Witness ==
  /\ xml_call.op = "visit_open_start_element"
  /\ xml_before # <<>>
  /\ Len(xml_call.element.attributes) = 2
  /\ xml_call.element.attributes[1].value = NullValue
  /\ xml_call.element.attributes[2].value # NullValue
  /\ Len(Last(xml_writer).attributes) = 1

CallbacksOfRecord ==
  parse_tokens("callbacks", record.tokens, record.event_record_id,
               record.timestamp)

\* The positions of an event type in what was written to the XML sink.
PositionsOf(writer, type) == {i \in DOMAIN writer : writer[i].type = type}

C13_CloseGoesByNesting ==
  sb_ret.kind # "Panic" =>
    /\ Len(builder.node_stack) = sb_opens - sb_closes
    /\ sb_call.op = "visit_close_element" =>
         LET before == sb_before.node_stack
             after == builder.node_stack
         IN /\ before # <<>>
            /\ Len(after) = Len(before) - 1
            /\ IF after = <<>>
                 THEN builder.result.content = Last(before)
                 ELSE /\ Front(after) = SubSeq(before, 1, Len(before) - 2)
                      /\ Last(after).name = before[Len(before) - 1].name
                      /\ Last(after).content.type = "Complex"
                      /\ Last(Last(after).content.children) = Last(before)

\* A close under the name "a" of an element opened as "b" inside another.
C13_Witness ==
  /\ sb_ret.kind # "Panic"
  /\ sb_call.op = "visit_close_element"
  /\ sb_call.element.name = "a"
  /\ Len(sb_before.node_stack) = 2
  /\ Last(sb_before.node_stack).name = "b"
  /\ Len(builder.node_stack) = 1

\* C16: visit_end_of_stream returns the StructureBuilderError "node stack
\* is not empty" iff an opened element has not been closed (the node stack
\* is not empty), returns Ok otherwise, and leaves the builder as it was.
C16_EndOfStreamReportsOpenElements ==
  sb_call.op = "visit_end_of_stream" =>
    /\ builder = sb_before
    /\ sb_ret = IF sb_opens > sb_closes
                  THEN [kind |-> "Err", err |-> "StructureBuilderError",
                        message |-> "node stack is not empty"]
                  ELSE [kind |-> "Ok"]
    /\ sb_opens > sb_closes <=> sb_before.node_stack # <<>>

\* visit_end_of_stream refused while an element is open, after a
\* top-level element was closed.
C16_Witness ==
  /\ sb_call.op = "visit_end_of_stream"
  /\ sb_ret.kind = "Err"
  /\ Len(builder.node_stack) = 1
  /\ builder.result.content.name # ""

\* The empty structure.
EmptyStructure ==
  [event_record_id |-> 0, timestamp |-> EpochTimestamp,
   content |-> [name |-> "", attributes |-> <<>>, content |-> [type |-> "None"]]]

RefElement(element) ==
  [name |-> element.name, attributes |-> element.attributes,
   texts |-> <<>>, kids |-> <<>>]

\* The open elements (outermost first) and the closed top-level elements
\* after the callbacks of trace, starting from the given ones.
RECURSIVE RefOf(_, _, _)
RefOf(trace, open, roots) ==
  IF trace = <<>> THEN [open |-> open, roots |-> roots]
  ELSE LET c == Head(trace)
       IN CASE c.op = "visit_open_start_element" ->
                 RefOf(Tail(trace), Append(open, RefElement(c.element)), roots)
            [] c.op = "visit_characters" ->
                 RefOf(Tail(trace),
                       [open EXCEPT ![Len(open)].texts =
                          Append(@, as_cow_str(c.value))],
                       roots)
            [] c.op = "visit_close_element" ->
                 IF Len(open) = 1
                   THEN RefOf(Tail(trace), <<>>, Append(roots, open[1]))
                   ELSE RefOf(Tail(trace),
                              [Front(open) EXCEPT ![Len(open) - 1].kids =
                                 Append(@, Last(open))],
                              roots)

Reference == RefOf(sb_trace, <<>>, <<>>)

\* The content type of a built element and of the elements below it is the
\* one that the callbacks it received call for.
RECURSIVE ClassifiedAsReceived(_, _)
ClassifiedAsReceived(element, ref) ==
  /\ element.content.type = "None" <=> (ref.texts = <<>> /\ ref.kids = <<>>)
  /\ element.content.type = "Simple" <=> (ref.texts # <<>> /\ ref.kids = <<>>)
  /\ element.content.type = "Complex" <=> ref.kids # <<>>
  /\ element.content.type = "Complex" =>
       /\ Len(element.content.children) = Len(ref.kids)
       /\ \A j \in DOMAIN ref.kids :
            ClassifiedAsReceived(element.content.children[j], ref.kids[j])

\* C12: every element the builder holds (open, closed into its parent,
\* closed as the top-level element, or returned by get_structure) has the
\* content None iff it received no characters and no child, Simple iff it
\* received characters and no child, Complex iff it received a child; a
\* visit_characters call counts whatever its value renders to.
C12_ContentTypeFollowsTheCallbacks ==
  sb_ret.kind # "Panic" =>
    LET document == Reference
    IN /\ Len(builder.node_stack) = Len(document.open)
       /\ \A i \in DOMAIN builder.node_stack :
            ClassifiedAsReceived(builder.node_stack[i], document.open[i])
       /\ document.roots # <<>> =>
            ClassifiedAsReceived(IF sb_phase = "got" THEN structure.value.content
                                 ELSE builder.result.content,
                                 Last(document.roots))

\* An open element holding a closed child whose only content was a Null
\* value, and a closed child without content.
C12_Witness ==
  /\ sb_ret.kind # "Panic"
  /\ Len(builder.node_stack) = 1
  /\ builder.node_stack[1].content.type = "Complex"
  /\ Len(builder.node_stack[1].content.children) = 2
  /\ builder.node_stack[1].content.children[1].content = ContentSimple("")
  /\ builder.node_stack[1].content.children[2].content = ContentNone
  /\ Len(sb_trace) = 6

\* C14: no callback of a well-nested sequence in document order makes
\* StructureBuilder panic: each returns Ok or an error value, also when an
\* element gets non-empty characters and then a child, or a child and then
\* non-empty characters.
C14_DocumentOrderNeverPanics ==
  sb_ret.kind \in {"Ok", "Err"}

\* The attributes an element was opened with, by name, rendered (of two
\* attributes of one name the later one).
AttributeMap(attributes) ==
  [n \in {attributes[i].name : i \in DOMAIN attributes} |->
     LET i == CHOOSE i \in DOMAIN attributes :
                /\ attributes[i].name = n
                /\ \A j \in DOMAIN attributes : attributes[j].name = n => j <= i
     IN as_cow_str(attributes[i].value)]

RECURSIVE Concat(_)
Concat(texts) == IF texts = <<>> THEN "" ELSE Head(texts) \o Concat(Tail(texts))

\* The tree of an element of the document.
RECURSIVE TreeOf(_)
TreeOf(ref) ==
  [name |-> ref.name,
   attributes |-> AttributeMap(ref.attributes),
   content |-> IF ref.kids # <<>>
                 THEN [type |-> "Complex",
                       children |-> [j \in DOMAIN ref.kids |-> TreeOf(ref.kids[j])]]
               ELSE IF ref.texts # <<>>
                 THEN [type |-> "Simple", text |-> Concat(ref.texts)]
               ELSE [type |-> "None"]]

\* No element at or below this one got both characters and a child.
RECURSIVE NoMixedContent(_)
NoMixedContent(ref) ==
  /\ ref.texts = <<>> \/ ref.kids = <<>>
  /\ \A j \in DOMAIN ref.kids : NoMixedContent(ref.kids[j])

HasNoMixedContent(document) ==
  /\ \A i \in DOMAIN document.open : NoMixedContent(document.open[i])
  /\ \A i \in DOMAIN document.roots : NoMixedContent(document.roots[i])

\* C15: as long as no element has mixed content, every callback returns Ok,
\* every open element is the tree of what it was given so far (its name and
\* its attributes from its visit_open_start_element, its text the
\* concatenation of its visit_characters values, its children in the order
\* they were closed), and for a document with one root get_structure
\* returns the tree of the root with the record id and the timestamp that
\* StructureBuilder::new was given.
C15_StructureIsTheTreeOfTheCallbacks ==
  LET document == Reference
  IN HasNoMixedContent(document) =>
       /\ sb_ret = SerOk
       /\ Len(builder.node_stack) = Len(document.open)
       /\ \A i \in DOMAIN builder.node_stack :
            builder.node_stack[i] = TreeOf(document.open[i])
       /\ (sb_phase = "got" /\ Len(document.roots) = 1) =>
            structure =
              Some([event_record_id |-> sb_args.event_record_id,
                    timestamp |-> sb_args.timestamp,
                    content |-> TreeOf(document.roots[1])])

\* get_structure after a root with attributes (one of them Null) that holds
\* one child, whose text came in two visit_characters calls.
C15_Witness ==
  /\ sb_phase = "got"
  /\ Len(Reference.roots) = 1
  /\ Len(Reference.roots[1].attributes) = 2
  /\ Len(Reference.roots[1].kids) = 1
  /\ Reference.roots[1].kids[1].name = "b"
  /\ Len(Reference.roots[1].kids[1].texts) = 2
  /\ structure.value.content.content.children[1].content = ContentSimple("vv")
  /\ structure.value.event_record_id = 2

\* C17: when several top-level elements were closed one after the other,
\* the last one closed is the content of the result, and of the structure
\* that get_structure returns; the earlier ones are in neither, and no call
\* returned an error for it.
C17_LastTopLevelElementWins ==
  LET document == Reference
  IN (HasNoMixedContent(document) /\ document.roots # <<>>) =>
       /\ sb_ret = SerOk
       /\ (IF sb_phase = "got" THEN structure.value.content
           ELSE builder.result.content) = TreeOf(Last(document.roots))

\* get_structure after two top-level elements "a" and "b", the second
\* with a text.
C17_Witness ==
  /\ sb_phase = "got"
  /\ Len(Reference.roots) = 2
  /\ Reference.roots[1].name = "a"
  /\ Reference.roots[2].name = "b"
  /\ Reference.roots[2].texts # <<>>
  /\ structure.value.content.name = "b"
  /\ structure.value.content.content.type = "Simple"

=============================================================================
